---- MODULE Spec2Model ----
(***************************************************************************)
(* ECH2O AOP design dashboard (src/app.py): the design-sizing engine       *)
(* calculate_design_values and the sidebar / standard-rate inputs that     *)
(* feed it.                                                                *)
(*                                                                         *)
(* Numbers.  Python floats are modelled as exact rationals <<n, d>> with   *)
(* d > 0 and gcd(n, d) = 1, so 0.40 is 2/5 and 1.5 is 3/2.  Python ints    *)
(* (stage, train, reactor, pump, container counts) are TLA+ integers.      *)
(***************************************************************************)
EXTENDS Integers, Sequences, FiniteSets, TLC

\* ------------------------------------------------------------ rationals

RECURSIVE GCD(_, _)
GCD(a, b) == IF b = 0 THEN a ELSE GCD(b, a % b)

Abs(a) == IF a < 0 THEN -a ELSE a

\* The rational n/d in lowest terms (d # 0).
Frac(n, d) ==
    LET s == IF d < 0 THEN -1 ELSE 1
        g == GCD(Abs(n), Abs(d))
    IN  <<(s * n) \div g, (s * d) \div g>>

R(i) == <<i, 1>>

RAdd(a, b) ==
    LET g == GCD(a[2], b[2])
    IN  Frac(a[1] * (b[2] \div g) + b[1] * (a[2] \div g), (a[2] \div g) * b[2])
RMul(a, b) ==
    LET g1 == GCD(Abs(a[1]), b[2])
        g2 == GCD(Abs(b[1]), a[2])
    IN  <<(a[1] \div g1) * (b[1] \div g2), (a[2] \div g2) * (b[2] \div g1)>>
RDiv(a, b) == RMul(a, Frac(b[2], b[1]))
RLe(a, b) == a[1] * b[2] <= b[1] * a[2]
RLt(a, b) == a[1] * b[2] < b[1] * a[2]
RGt(a, b) == RLt(b, a)

\* np.ceil / math.ceil of a rational, as an integer.
Ceil(a) == IF a[1] % a[2] = 0 THEN a[1] \div a[2] ELSE (a[1] \div a[2]) + 1

Max(a, b) == IF a >= b THEN a ELSE b
Min(a, b) == IF a <= b THEN a ELSE b

RECURSIVE Pow(_, _)
Pow(b, e) == IF e = 0 THEN 1 ELSE b * Pow(b, e - 1)

\* ---------------------------------------------------------------- state

VARIABLES
    flowrate,              \* sidebar inputs: module globals the engine reads
    cod_inlet,
    cod_target,
    initial_ph,
    reactor_size,
    php_conversion_rate,
    electricity_cost,
    chemical_cost_factor,
    rates,                 \* the 14 arguments of calculate_design_values
    pc,                    \* "loop": inside the COD staging loop; "idle": returned;
                           \* "raised": the call ended in an exception
    current_cod,           \* locals of the running call
    stages_needed,
    cod_values,
    design_values,         \* the dict the last completed call returned
    prev                   \* history: inputs and result of the call before this one

globals == <<flowrate, cod_inlet, cod_target, initial_ph, reactor_size,
             php_conversion_rate, electricity_cost, chemical_cost_factor, rates>>
frame == <<current_cod, stages_needed, cod_values>>
vars == <<globals, pc, frame, design_values, prev>>

\* --------------------------------------------------------------- bounds

\* The staging loop is followed for at most this many iterations.
MaxIterations == 10

\* ------------------------------------------------- program constants

ozone_capacity_per_generator == 200
filtration_loading_rate == 10
container_20ft_capacity == 6
container_40ft_capacity == 12
recirculation_pumps_required == 2

\* The names of the two container counts the engine returns.
ContainerNames == {"num_20ft_containers", "num_40ft_containers"}

\* ------------------------------------------ calculate_design_values

\* The stage that reduces nothing.
ReduceCodNone(cod) == cod

\* current_cod * 0.40 (60% reduction per stage).
ReduceCod(cod) == RMul(cod, Frac(2, 5))

\* The loop condition with >= for >.
LoopConditionAtLeast(cod, target) == RLe(target, cod)

\* The loop condition with the comparison turned round.
LoopConditionBelow(cod, target) == RLt(cod, target)

\* while current_cod > cod_target
LoopCondition(cod, target) == RGt(cod, target)

\* The clamp without its upper bound.
ClampStagesNoCeiling(n) == Max(2, n)

\* The clamp with an upper bound of 3.
ClampStagesMaxThree(n) == Max(2, Min(3, n))

\* The clamp without its lower bound.
ClampStagesNoFloor(n) == Min(4, n)

\* stages_needed = max(2, min(4, stages_needed))
ClampStages(n) == Max(2, Min(4, n))

\* The ozone requirement without the 0.25 g O3 per g COD.
OzoneRequirementKgPerDayUnscaled(cod_load_kg_per_day) == cod_load_kg_per_day

\* 0.25 * cod_load_kg_per_day (0.25 g O3 per 1 g COD)
OzoneRequirementKgPerDay(cod_load_kg_per_day) == RMul(Frac(1, 4), cod_load_kg_per_day)

\* The train count rounded as int(x) + 1 instead of ceil(x).
NumParallelReactorsNeededFloorPlusOne(flow, size) ==
    LET x == RDiv(RDiv(flow, R(24)), RDiv(size, R(2)))
    IN  R((x[1] \div x[2]) + 1)

\* The train count with the operands of the division swapped.
NumParallelReactorsNeededInverted(flow, size) ==
    R(Ceil(RDiv(RDiv(size, R(2)), RDiv(flow, R(24)))))

\* np.ceil(reactor_volume_per_hour / hourly_processing_capacity_per_reactor),
\* a float holding a whole number.
NumParallelReactorsNeeded(flow, size) ==
    LET reactor_volume_per_day == flow
        reactor_volume_per_hour == RDiv(reactor_volume_per_day, R(24))
        hourly_processing_capacity_per_reactor == RDiv(size, R(2))
    IN  R(Ceil(RDiv(reactor_volume_per_hour, hourly_processing_capacity_per_reactor)))

\* int(np.ceil(num_parallel_reactors_needed))
NumReactorTrains(num_parallel_reactors_needed) == Ceil(num_parallel_reactors_needed)

\* One generator per reactor.
NumOzoneGeneratorsOnePerReactor(total_reactors) == total_reactors

\* total_reactors * 2 (2 generators per reactor)
NumOzoneGenerators(total_reactors) == total_reactors * 2

\* reactor_size / 0.25 (fill one reactor volume in 15 minutes)
PumpFlowRatePerTrain(size) == RDiv(size, Frac(1, 4))

\* The recirculation rate without the division by 2 hours.
RecirculationFlowRatePerHour(total_reactors, size) ==
    RMul(RMul(R(total_reactors), size), R(5))

\* total_reactors * reactor_size * 5 / 2
RecirculationFlowRate(total_reactors, size) ==
    RDiv(RMul(RMul(R(total_reactors), size), R(5)), R(2))

\* Two pumps per train (the influent pair alone).
TotalInfluentEffluentPumpsInfluentOnly(num_reactor_trains) == num_reactor_trains * 2

\* num_reactor_trains * 4 (2 influent + 2 effluent per train)
TotalInfluentEffluentPumps(num_reactor_trains) == num_reactor_trains * 4

\* total_pump_flow_rate / filtration_loading_rate
RequiredFilterArea(total_pump_flow_rate) ==
    RDiv(total_pump_flow_rate, R(filtration_loading_rate))

\* The filter unit count without its floor of 2.
FilterUnitsNoFloor(required_filter_area) == Ceil(RDiv(required_filter_area, R(5)))

\* max(2, int(np.ceil(required_filter_area/5)))
FilterUnits(required_filter_area) == Max(2, Ceil(RDiv(required_filter_area, R(5))))

\* The filter cost charged per rounded filter unit.
FilterCostPerUnit(filter_unit_cost, required_filter_area) ==
    RMul(filter_unit_cost, R(Max(2, Ceil(RDiv(required_filter_area, R(5))))))

\* filter_unit_cost * required_filter_area
FilterCost(filter_unit_cost, required_filter_area) ==
    RMul(filter_unit_cost, required_filter_area)

\* The container branch with remaining_units < container_20ft_capacity.
ContainerSelectionStrict(flow, total_equipment_units) ==
    IF RLe(flow, R(15))
    THEN [num_20ft_containers |-> 1, num_40ft_containers |-> 0]
    ELSE IF total_equipment_units <= container_40ft_capacity
    THEN [num_40ft_containers |-> 1, num_20ft_containers |-> 0]
    ELSE LET q == total_equipment_units \div container_40ft_capacity
             remaining_units == total_equipment_units % container_40ft_capacity
         IN  IF remaining_units > 0
             THEN IF remaining_units < container_20ft_capacity
                  THEN [num_40ft_containers |-> q, num_20ft_containers |-> 1]
                  ELSE [num_40ft_containers |-> q + 1, num_20ft_containers |-> 0]
             ELSE [num_40ft_containers |-> q, num_20ft_containers |-> 0]

\* The container branch without the assignment of its last else.
ContainerSelectionUnbound(flow, total_equipment_units) ==
    IF RLe(flow, R(15))
    THEN [num_20ft_containers |-> 1, num_40ft_containers |-> 0]
    ELSE IF total_equipment_units <= container_40ft_capacity
    THEN [num_40ft_containers |-> 1, num_20ft_containers |-> 0]
    ELSE LET q == total_equipment_units \div container_40ft_capacity
             remaining_units == total_equipment_units % container_40ft_capacity
         IN  IF remaining_units > 0
             THEN IF remaining_units <= container_20ft_capacity
                  THEN [num_40ft_containers |-> q, num_20ft_containers |-> 1]
                  ELSE [num_40ft_containers |-> q + 1, num_20ft_containers |-> 0]
             ELSE [num_40ft_containers |-> q]

\* The container branch: the local names it binds, as a function from the
\* bound names to their values (a name a path never assigns is not in the
\* domain, and reading it raises UnboundLocalError).
ContainerSelection(flow, total_equipment_units) ==
    IF RLe(flow, R(15))
    THEN [num_20ft_containers |-> 1, num_40ft_containers |-> 0]
    ELSE IF total_equipment_units <= container_40ft_capacity
    THEN [num_40ft_containers |-> 1, num_20ft_containers |-> 0]
    ELSE LET q == total_equipment_units \div container_40ft_capacity
             remaining_units == total_equipment_units % container_40ft_capacity
         IN  IF remaining_units > 0
             THEN IF remaining_units <= container_20ft_capacity
                  THEN [num_40ft_containers |-> q, num_20ft_containers |-> 1]
                  ELSE [num_40ft_containers |-> q + 1, num_20ft_containers |-> 0]
             ELSE [num_40ft_containers |-> q, num_20ft_containers |-> 0]

\* The container cost with the two unit costs swapped.
ContainerCostSwapped(c, cost20, cost40) ==
    RAdd(RMul(R(c.num_20ft_containers), cost40), RMul(R(c.num_40ft_containers), cost20))

\* (num_20ft_containers * container_20ft_cost) + (num_40ft_containers * container_40ft_cost)
ContainerCost(c, cost20, cost40) ==
    RAdd(RMul(R(c.num_20ft_containers), cost20), RMul(R(c.num_40ft_containers), cost40))

\* (aop_reactor_cost + pump_cost) * piping_factor
PipingCost(aop_reactor_cost, pump_cost, piping_factor) ==
    RMul(RAdd(aop_reactor_cost, pump_cost), piping_factor)

\* The direct costs without the container housing.
DirectCostsNoContainer(aop, ozone, pump, filter, ph, piping, container) ==
    RAdd(RAdd(RAdd(RAdd(RAdd(aop, ozone), pump), filter), ph), piping)

\* aop_reactor_cost + ozone_generator_cost + pump_cost + filter_cost
\*   + ph_adjustment_cost + piping_cost + container_cost
DirectCosts(aop, ozone, pump, filter, ph, piping, container) ==
    RAdd(RAdd(RAdd(RAdd(RAdd(RAdd(aop, ozone), pump), filter), ph), piping), container)

\* direct_costs * epc_factor
EpcCost(direct_costs, epc_factor) == RMul(direct_costs, epc_factor)

\* The total converted to pesos inside the engine.
TotalCapexInPesos(direct_costs, epc_cost) ==
    RMul(RAdd(direct_costs, epc_cost), php_conversion_rate)

\* direct_costs + epc_cost
TotalCapex(direct_costs, epc_cost) == RAdd(direct_costs, epc_cost)

\* The operator count with a minimum of 2.
OperatorsRequiredMinimumTwo(total_reactors) == Max(2, Ceil(Frac(total_reactors, 8)))

\* max(1, int(np.ceil(total_reactors / 8)))
OperatorsRequired(total_reactors) == Max(1, Ceil(Frac(total_reactors, 8)))

\* The monthly total without the maintenance item.
TotalMonthlyOpexNoMaintenance(ozone_power, pumping, chemical, labor, maintenance) ==
    RAdd(RAdd(RAdd(ozone_power, pumping), chemical), labor)

\* monthly_ozone_power_cost + monthly_pumping_cost + monthly_chemical_cost
\*   + monthly_labor_cost + monthly_maintenance_cost
TotalMonthlyOpex(ozone_power, pumping, chemical, labor, maintenance) ==
    RAdd(RAdd(RAdd(RAdd(ozone_power, pumping), chemical), labor), maintenance)

\* ------------------------------------------------------------ the result

NoResult == [returned |-> FALSE]
NoPrev == [called |-> FALSE]

\* Everything a call reads: the globals and the arguments.
InputsRec ==
    [flowrate |-> flowrate, cod_inlet |-> cod_inlet, cod_target |-> cod_target,
     initial_ph |-> initial_ph, reactor_size |-> reactor_size,
     php_conversion_rate |-> php_conversion_rate,
     electricity_cost |-> electricity_cost,
     chemical_cost_factor |-> chemical_cost_factor, rates |-> rates]

\* What a call ends in when it reads a local name no path assigned.
UnboundLocalError == [raised |-> "UnboundLocalError"]

\* The statements around the loop, up to the returned dict.  rt: the
\* arguments; counted: stages_needed as the loop left it; cod_vals: cod_values.
DesignValues(rt, counted, cod_vals) ==
    LET cod_load_kg_per_day == RDiv(RMul(flowrate, cod_inlet), R(1000))
        ozone_requirement_kg_per_day == OzoneRequirementKgPerDay(cod_load_kg_per_day)
        num_parallel_reactors_needed == NumParallelReactorsNeeded(flowrate, reactor_size)
        stages == ClampStages(counted)
        num_reactor_trains == NumReactorTrains(num_parallel_reactors_needed)
        total_reactors == num_reactor_trains * stages
        num_ozone_generators == NumOzoneGenerators(total_reactors)
        ozone_generator_cost == RMul(R(num_ozone_generators), rt.ozone_generator_unit_cost)
        pump_flow_rate_per_train == PumpFlowRatePerTrain(reactor_size)
        total_pump_flow_rate == RMul(pump_flow_rate_per_train, R(num_reactor_trains))
        recirculation_flow_rate == RecirculationFlowRate(total_reactors, reactor_size)
        aop_reactor_cost == RMul(rt.aop_reactor_unit_cost, R(total_reactors))
        total_influent_effluent_pumps == TotalInfluentEffluentPumps(num_reactor_trains)
        total_pumps == total_influent_effluent_pumps + recirculation_pumps_required
        pump_cost == RMul(rt.pump_unit_cost, R(total_pumps))
        required_filter_area == RequiredFilterArea(total_pump_flow_rate)
        filter_units == FilterUnits(required_filter_area)
        filter_cost == FilterCost(rt.filter_unit_cost, required_filter_area)
        ph_adjustment_cost == rt.ph_adjustment_unit_cost
        total_equipment_units == total_reactors + filter_units
        c == ContainerSelection(flowrate, total_equipment_units)
        container_cost == ContainerCost(c, rt.container_20ft_cost, rt.container_40ft_cost)
        piping_cost == PipingCost(aop_reactor_cost, pump_cost, rt.piping_factor)
        direct_costs == DirectCosts(aop_reactor_cost, ozone_generator_cost, pump_cost,
                                    filter_cost, ph_adjustment_cost, piping_cost,
                                    container_cost)
        epc_cost == EpcCost(direct_costs, rt.epc_factor)
        total_capex == TotalCapex(direct_costs, epc_cost)
        daily_ozone_energy == RMul(ozone_requirement_kg_per_day, rt.ozone_power_consumption)
        monthly_ozone_energy == RMul(daily_ozone_energy, R(30))
        monthly_ozone_power_cost == RMul(monthly_ozone_energy, electricity_cost)
        daily_pumping_energy == RMul(flowrate, rt.pump_power_consumption)
        daily_recirculation_energy ==
            RMul(RMul(recirculation_flow_rate, R(24)), rt.pump_power_consumption)
        total_daily_pumping_energy == RAdd(daily_pumping_energy, daily_recirculation_energy)
        monthly_pumping_energy == RMul(total_daily_pumping_energy, R(30))
        monthly_pumping_cost == RMul(monthly_pumping_energy, electricity_cost)
        monthly_chemical_cost ==
            RMul(RMul(RMul(flowrate, R(30)), rt.chemicals_base_cost), chemical_cost_factor)
        operators_required == OperatorsRequired(total_reactors)
        monthly_labor_cost == RMul(R(operators_required), rt.operator_monthly_salary)
        monthly_maintenance_cost == RDiv(RMul(total_capex, rt.maintenance_factor), R(12))
        total_monthly_opex ==
            TotalMonthlyOpex(monthly_ozone_power_cost, monthly_pumping_cost,
                             monthly_chemical_cost, monthly_labor_cost,
                             monthly_maintenance_cost)
    IN  IF DOMAIN c # ContainerNames THEN UnboundLocalError ELSE
        [flowrate |-> flowrate,
         cod_inlet |-> cod_inlet,
         cod_target |-> cod_target,
         initial_ph |-> initial_ph,
         reactor_size |-> reactor_size,
         cod_load_kg_per_day |-> cod_load_kg_per_day,
         ozone_requirement_kg_per_day |-> ozone_requirement_kg_per_day,
         num_parallel_reactors_needed |-> num_parallel_reactors_needed,
         stages_needed |-> stages,
         num_reactor_trains |-> num_reactor_trains,
         total_reactors |-> total_reactors,
         num_ozone_generators |-> num_ozone_generators,
         ozone_generator_cost |-> ozone_generator_cost,
         cod_reduction_stages |-> cod_vals,
         pump_flow_rate_per_train |-> pump_flow_rate_per_train,
         total_pump_flow_rate |-> total_pump_flow_rate,
         recirculation_flow_rate |-> recirculation_flow_rate,
         recirculation_pumps_required |-> recirculation_pumps_required,
         total_influent_effluent_pumps |-> total_influent_effluent_pumps,
         total_pumps |-> total_pumps,
         aop_reactor_cost |-> aop_reactor_cost,
         pump_cost |-> pump_cost,
         filter_cost |-> filter_cost,
         filter_units |-> filter_units,
         ph_adjustment_cost |-> ph_adjustment_cost,
         piping_cost |-> piping_cost,
         epc_cost |-> epc_cost,
         total_capex |-> total_capex,
         monthly_ozone_power_cost |-> monthly_ozone_power_cost,
         daily_recirculation_energy |-> daily_recirculation_energy,
         monthly_pumping_cost |-> monthly_pumping_cost,
         monthly_chemical_cost |-> monthly_chemical_cost,
         monthly_labor_cost |-> monthly_labor_cost,
         monthly_maintenance_cost |-> monthly_maintenance_cost,
         total_monthly_opex |-> total_monthly_opex,
         electricity_cost |-> electricity_cost,
         chemical_cost_factor |-> chemical_cost_factor,
         operators_required |-> operators_required,
         php_conversion_rate |-> php_conversion_rate,
         num_20ft_containers |-> c.num_20ft_containers,
         num_40ft_containers |-> c.num_40ft_containers,
         container_cost |-> container_cost,
         total_equipment_units |-> total_equipment_units]

\* ------------------------------------------------------------- the call

\* The entry with cod_values living on from call to call (a list created once,
\* not per call).
CallSharedCodValues(in) ==
    /\ pc \in {"idle", "raised"}
    /\ flowrate' = in.flowrate
    /\ cod_inlet' = in.cod_inlet
    /\ cod_target' = in.cod_target
    /\ initial_ph' = in.initial_ph
    /\ reactor_size' = in.reactor_size
    /\ php_conversion_rate' = in.php_conversion_rate
    /\ electricity_cost' = in.electricity_cost
    /\ chemical_cost_factor' = in.chemical_cost_factor
    /\ rates' = in.rates
    /\ current_cod' = in.cod_inlet
    /\ stages_needed' = 0
    /\ cod_values' = Append(cod_values, in.cod_inlet)
    /\ pc' = "loop"
    /\ prev' = IF pc = "idle" THEN [in |-> InputsRec, out |-> design_values] ELSE NoPrev
    /\ UNCHANGED design_values

\* Entry of calculate_design_values with the globals and arguments of `in`:
\* the statements before the loop.  The result the call will replace and the
\* inputs it was computed from are remembered in prev.
Call(in) ==
    /\ pc \in {"idle", "raised"}
    /\ flowrate' = in.flowrate
    /\ cod_inlet' = in.cod_inlet
    /\ cod_target' = in.cod_target
    /\ initial_ph' = in.initial_ph
    /\ reactor_size' = in.reactor_size
    /\ php_conversion_rate' = in.php_conversion_rate
    /\ electricity_cost' = in.electricity_cost
    /\ chemical_cost_factor' = in.chemical_cost_factor
    /\ rates' = in.rates
    /\ current_cod' = in.cod_inlet
    /\ stages_needed' = 0
    /\ cod_values' = <<in.cod_inlet>>
    /\ pc' = "loop"
    /\ prev' = IF pc = "idle" THEN [in |-> InputsRec, out |-> design_values] ELSE NoPrev
    /\ UNCHANGED design_values

\* One iteration of: while current_cod > cod_target.
LoopStep ==
    /\ pc = "loop"
    /\ LoopCondition(current_cod, cod_target)
    /\ Len(cod_values) <= MaxIterations
    /\ current_cod' = ReduceCod(current_cod)
    /\ cod_values' = Append(cod_values, ReduceCod(current_cod))
    /\ stages_needed' = stages_needed + 1
    /\ UNCHANGED <<globals, pc, design_values, prev>>

\* The loop condition is false: the rest of the body runs and the dict is
\* returned (or a read of an unbound local raises).
Return ==
    /\ pc = "loop"
    /\ ~LoopCondition(current_cod, cod_target)
    /\ LET res == DesignValues(rates, stages_needed, cod_values)
       IN  IF res = UnboundLocalError
           THEN pc' = "raised" /\ UNCHANGED design_values
           ELSE pc' = "idle" /\ design_values' = res
    /\ UNCHANGED <<globals, frame, prev>>

\* ------------------------------------------------------ standard rates

\* The arguments the script passes with every tab-5 widget at its default
\* value (the three percentages already divided by 100).
DefaultRates ==
    [aop_reactor_unit_cost |-> R(650),
     pump_unit_cost |-> R(650),
     filter_unit_cost |-> R(650),
     ph_adjustment_unit_cost |-> R(650),
     ozone_generator_unit_cost |-> R(650),
     operator_monthly_salary |-> R(450),
     ozone_power_consumption |-> R(3),
     pump_power_consumption |-> Frac(5, 100),
     chemicals_base_cost |-> Frac(25, 100),
     maintenance_factor |-> RDiv(R(10), R(100)),
     piping_factor |-> RDiv(R(30), R(100)),
     epc_factor |-> RDiv(R(30), R(100)),
     container_20ft_cost |-> R(6000),
     container_40ft_cost |-> R(7000)]

\* --------------------------------------- the engine under any valid caller

\* Inputs of the contract's domain: flowrate > 0, 0 < cod_target < cod_inlet,
\* 1 <= initial_ph <= 14, reactor_size in {1.5, 2.0}, positive rates.
FlowrateValues ==
    {R(10), R(15), Frac(31, 2), R(19), R(48), R(90), R(190), R(320)}
CodInletValues == {R(250), R(1000)}
CodTargetValues == {R(4), R(40), R(75), R(900)}
InitialPhValues == {R(7)}
ReactorSizeValues == {Frac(3, 2), R(2)}
PhpConversionRateValues == {R(58), Frac(115, 2)}
ElectricityCostValues == {Frac(19, 100)}
ChemicalCostFactorValues == {Frac(3, 2)}
RatesValues ==
    {DefaultRates,
     [DefaultRates EXCEPT !.container_20ft_cost = R(8000),
                          !.container_40ft_cost = R(5000)],
     [DefaultRates EXCEPT !.aop_reactor_unit_cost = R(500),
                          !.pump_unit_cost = R(600),
                          !.filter_unit_cost = R(700),
                          !.ph_adjustment_unit_cost = R(800),
                          !.ozone_generator_unit_cost = R(1000),
                          !.piping_factor = RDiv(R(40), R(100)),
                          !.epc_factor = RDiv(R(20), R(100))]}

ValidInputs ==
    {in \in [flowrate : FlowrateValues, cod_inlet : CodInletValues,
             cod_target : CodTargetValues, initial_ph : InitialPhValues,
             reactor_size : ReactorSizeValues,
             php_conversion_rate : PhpConversionRateValues,
             electricity_cost : ElectricityCostValues,
             chemical_cost_factor : ChemicalCostFactorValues,
             rates : RatesValues] :
        RLt(in.cod_target, in.cod_inlet)}

\* The state on entry of a first call with inputs `in`.
Entered(in) ==
    /\ flowrate = in.flowrate
    /\ cod_inlet = in.cod_inlet
    /\ cod_target = in.cod_target
    /\ initial_ph = in.initial_ph
    /\ reactor_size = in.reactor_size
    /\ php_conversion_rate = in.php_conversion_rate
    /\ electricity_cost = in.electricity_cost
    /\ chemical_cost_factor = in.chemical_cost_factor
    /\ rates = in.rates
    /\ current_cod = in.cod_inlet
    /\ stages_needed = 0
    /\ cod_values = <<in.cod_inlet>>
    /\ pc = "loop"
    /\ design_values = NoResult
    /\ prev = NoPrev

Init == \E in \in ValidInputs : Entered(in)

\* A further call that differs from the last one in one input (or in none).
NewFlowrate == \E v \in FlowrateValues : Call([InputsRec EXCEPT !.flowrate = v])
NewCod ==
    \E ci \in CodInletValues, ct \in CodTargetValues :
        /\ RLt(ct, ci)
        /\ Call([InputsRec EXCEPT !.cod_inlet = ci, !.cod_target = ct])
NewInitialPh == \E v \in InitialPhValues : Call([InputsRec EXCEPT !.initial_ph = v])
NewReactorSize == \E v \in ReactorSizeValues : Call([InputsRec EXCEPT !.reactor_size = v])
NewPhpConversionRate ==
    \E v \in PhpConversionRateValues : Call([InputsRec EXCEPT !.php_conversion_rate = v])
NewElectricityCost ==
    \E v \in ElectricityCostValues : Call([InputsRec EXCEPT !.electricity_cost = v])
NewChemicalCostFactor ==
    \E v \in ChemicalCostFactorValues : Call([InputsRec EXCEPT !.chemical_cost_factor = v])
NewRates == \E v \in RatesValues : Call([InputsRec EXCEPT !.rates = v])

Next ==
    \/ NewFlowrate
    \/ NewCod
    \/ NewInitialPh
    \/ NewReactorSize
    \/ NewPhpConversionRate
    \/ NewElectricityCost
    \/ NewChemicalCostFactor
    \/ NewRates
    \/ LoopStep
    \/ Return

Spec == Init /\ [][Next]_vars

\* The interpreter keeps running a started call: an iteration of the loop
\* that can run does run.
FairSpec == Spec /\ WF_vars(LoopStep)

\* ----------------------------------- the engine under an unchecking caller

\* calculate_design_values checks none of the globals it reads: a caller other
\* than the widgets can enter it with any COD pair, cod_target >= cod_inlet
\* included.
UnvalidatedInputs ==
    [flowrate : {R(10), R(48)}, cod_inlet : {R(250), R(1000)},
     cod_target : {R(40), R(250), R(1000), R(2000)}, initial_ph : {R(7)},
     reactor_size : {R(2)}, php_conversion_rate : {R(58)},
     electricity_cost : {Frac(19, 100)}, chemical_cost_factor : {R(1)},
     rates : {DefaultRates}]

UnvalidatedInit == \E in \in UnvalidatedInputs : Entered(in)

UnvalidatedCall == \E in \in UnvalidatedInputs : Call(in)

UnvalidatedNext ==
    \/ UnvalidatedCall
    \/ LoopStep
    \/ Return

UnvalidatedSpec == UnvalidatedInit /\ [][UnvalidatedNext]_vars

\* ------------------------------------------- the script and its widgets

\* st.number_input(min_value, max_value): the value it returns lies in
\* [min_value, max_value]; an entry outside is not taken.
NumberInputAccepts(v, min_value, max_value) == RLe(min_value, v) /\ RLe(v, max_value)

\* The COD target widget with max_value = cod_inlet instead of cod_inlet - 1.
CodTargetMaxValueInlet(inlet) == inlet

\* max_value=cod_inlet-1.0 of the COD target widget
CodTargetMaxValue(inlet) == RAdd(inlet, R(-1))

\* value=min(75.0, cod_inlet-1.0) of the COD target widget
CodTargetDefault(inlet) ==
    IF RLe(R(75), RAdd(inlet, R(-1))) THEN R(75) ELSE RAdd(inlet, R(-1))

\* reactor_size_options.keys()
ReactorSizeOptions == {Frac(3, 2), R(2)}

\* min_value and max_value of the tab-5 widgets.
RateWidgetBounds ==
    [aop_reactor_unit_cost |-> <<R(500), R(1000)>>,
     pump_unit_cost |-> <<R(500), R(1000)>>,
     filter_unit_cost |-> <<R(500), R(1000)>>,
     ph_adjustment_unit_cost |-> <<R(500), R(1000)>>,
     ozone_generator_unit_cost |-> <<R(500), R(1000)>>,
     container_20ft_cost |-> <<R(4000), R(8000)>>,
     container_40ft_cost |-> <<R(5000), R(10000)>>,
     operator_monthly_salary |-> <<R(300), R(1000)>>,
     ozone_power_consumption |-> <<R(1), R(5)>>,
     pump_power_consumption |-> <<Frac(3, 100), Frac(15, 100)>>,
     chemicals_base_cost |-> <<Frac(1, 10), R(1)>>,
     maintenance_factor |-> <<Frac(5, 2), R(15)>>,
     piping_factor |-> <<R(20), R(40)>>,
     epc_factor |-> <<R(20), R(60)>>]

\* The argument the script passes for a tab-5 widget value: the three
\* percentages are divided by 100.
RateArgument(name, v) ==
    IF name \in {"maintenance_factor", "piping_factor", "epc_factor"}
    THEN RDiv(v, R(100))
    ELSE v

\* What the user may enter, in and out of each widget's range.
FlowrateAttempts == {R(0), R(5), R(10), R(48), R(150), R(155)}
CodInletAttempts == {R(0), R(5), R(10), R(250), R(1000)}
CodTargetAttempts ==
    {R(0), Frac(1, 2), R(1), R(9), R(10), R(75), R(249), R(250), R(999), R(1000)}
InitialPhAttempts == {R(0), R(1), R(7), R(14), R(15)}
PhpConversionRateAttempts == {R(39), R(58), R(81)}
ElectricityCostAttempts == {Frac(1, 100), Frac(19, 100)}
ChemicalCostFactorAttempts == {R(1), R(3)}
RateAttempts ==
    [name \in DOMAIN RateWidgetBounds |->
        CASE name = "container_20ft_cost" -> {R(3000), R(6000), R(8000)}
          [] name = "container_40ft_cost" -> {R(4000), R(7000)}
          [] name = "maintenance_factor" -> {R(1), R(10)}
          [] name = "piping_factor" -> {R(10), R(30)}
          [] name = "epc_factor" -> {R(30), R(70)}
          [] name = "ozone_power_consumption" -> {R(0), R(3), R(5)}
          [] OTHER -> {R(0), DefaultRates[name]}]

\* Every widget at its default value.
WidgetDefaults ==
    [flowrate |-> R(10), cod_inlet |-> R(1000),
     cod_target |-> CodTargetDefault(R(1000)), initial_ph |-> R(7),
     reactor_size |-> Frac(3, 2), php_conversion_rate |-> R(58),
     electricity_cost |-> Frac(19, 100), chemical_cost_factor |-> R(1),
     rates |-> DefaultRates]

\* The first run of the script has read the widgets and entered the call.
AppInit == Entered(WidgetDefaults)

\* A user entry in a widget reruns the script, which reads every widget and
\* calls calculate_design_values once.
SidebarFlowrate ==
    \E v \in FlowrateAttempts :
        /\ NumberInputAccepts(v, R(10), R(150))
        /\ Call([InputsRec EXCEPT !.flowrate = v])

\* cod_inlet has no max_value.  The COD target widget is rebuilt with the new
\* max_value: it keeps its value when that still fits, or returns to its
\* default.
SidebarCodInlet ==
    \E v \in CodInletAttempts, keep \in BOOLEAN :
        /\ RLe(R(10), v)
        /\ keep => NumberInputAccepts(cod_target, R(1), CodTargetMaxValue(v))
        /\ Call([InputsRec EXCEPT !.cod_inlet = v,
                                  !.cod_target = IF keep THEN cod_target
                                                 ELSE CodTargetDefault(v)])

SidebarCodTarget ==
    \E v \in CodTargetAttempts :
        /\ NumberInputAccepts(v, R(1), CodTargetMaxValue(cod_inlet))
        /\ Call([InputsRec EXCEPT !.cod_target = v])

SidebarInitialPh ==
    \E v \in InitialPhAttempts :
        /\ NumberInputAccepts(v, R(1), R(14))
        /\ Call([InputsRec EXCEPT !.initial_ph = v])

SidebarReactorSize ==
    \E v \in ReactorSizeOptions : Call([InputsRec EXCEPT !.reactor_size = v])

SidebarPhpConversionRate ==
    \E v \in PhpConversionRateAttempts :
        /\ NumberInputAccepts(v, R(40), R(80))
        /\ Call([InputsRec EXCEPT !.php_conversion_rate = v])

SidebarElectricityCost ==
    \E v \in ElectricityCostAttempts :
        /\ NumberInputAccepts(v, Frac(5, 100), Frac(5, 10))
        /\ Call([InputsRec EXCEPT !.electricity_cost = v])

SidebarChemicalCostFactor ==
    \E v \in ChemicalCostFactorAttempts :
        /\ NumberInputAccepts(v, Frac(5, 10), R(2))
        /\ Call([InputsRec EXCEPT !.chemical_cost_factor = v])

StandardRate ==
    \E name \in DOMAIN RateWidgetBounds :
        \E v \in RateAttempts[name] :
            /\ NumberInputAccepts(v, RateWidgetBounds[name][1], RateWidgetBounds[name][2])
            /\ Call([InputsRec EXCEPT !.rates[name] = RateArgument(name, v)])

AppNext ==
    \/ SidebarFlowrate
    \/ SidebarCodInlet
    \/ SidebarCodTarget
    \/ SidebarInitialPh
    \/ SidebarReactorSize
    \/ SidebarPhpConversionRate
    \/ SidebarElectricityCost
    \/ SidebarChemicalCostFactor
    \/ StandardRate
    \/ LoopStep
    \/ Return

AppSpec == AppInit /\ [][AppNext]_vars

\* ------------------------------------------------- the cost export

\* The CAPEX items with the values of Container Housing and Piping &
\* Instrumentation under each other's label.
capex_itemsMislabelled ==
    <<<<"AOP Reactors", design_values.aop_reactor_cost>>,
      <<"Ozone Generators", design_values.ozone_generator_cost>>,
      <<"Pumping Equipment", design_values.pump_cost>>,
      <<"Sand Filtration", design_values.filter_cost>>,
      <<"pH Adjustment", design_values.ph_adjustment_cost>>,
      <<"Container Housing", design_values.piping_cost>>,
      <<"Piping & Instrumentation", design_values.container_cost>>,
      <<"EPC", design_values.epc_cost>>>>

\* The CAPEX items without the EPC entry (the direct costs alone).
capex_itemsDirectOnly ==
    <<<<"AOP Reactors", design_values.aop_reactor_cost>>,
      <<"Ozone Generators", design_values.ozone_generator_cost>>,
      <<"Pumping Equipment", design_values.pump_cost>>,
      <<"Sand Filtration", design_values.filter_cost>>,
      <<"pH Adjustment", design_values.ph_adjustment_cost>>,
      <<"Container Housing", design_values.container_cost>>,
      <<"Piping & Instrumentation", design_values.piping_cost>>>>

\* capex_items: the dict of label -> value, in insertion order.
capex_items ==
    <<<<"AOP Reactors", design_values.aop_reactor_cost>>,
      <<"Ozone Generators", design_values.ozone_generator_cost>>,
      <<"Pumping Equipment", design_values.pump_cost>>,
      <<"Sand Filtration", design_values.filter_cost>>,
      <<"pH Adjustment", design_values.ph_adjustment_cost>>,
      <<"Container Housing", design_values.container_cost>>,
      <<"Piping & Instrumentation", design_values.piping_cost>>,
      <<"EPC", design_values.epc_cost>>>>

\* opex_items: the dict of label -> value, in insertion order.
opex_items ==
    <<<<"Ozone Generation Power", design_values.monthly_ozone_power_cost>>,
      <<"Pumping Power", design_values.monthly_pumping_cost>>,
      <<"Chemicals", design_values.monthly_chemical_cost>>,
      <<"Labor", design_values.monthly_labor_cost>>,
      <<"Maintenance", design_values.monthly_maintenance_cost>>>>

\* list(items.keys()) and list(items.values())
Keys(items) == [i \in 1..Len(items) |-> items[i][1]]
Values(items) == [i \in 1..Len(items) |-> items[i][2]]

\* [tag] * n
Repeat(tag, n) == [i \in 1..n |-> tag]

\* The "Years of Operation" slider, left at its initial value.
years_of_operation == 10

\* design_values['total_monthly_opex'] * 12
annual_opex == RMul(design_values.total_monthly_opex, R(12))

\* annual_opex * years_of_operation
total_opex_over_lifetime == RMul(annual_opex, R(years_of_operation))

\* design_values['total_capex'] * 1.232 + total_opex_over_lifetime
total_cost_over_lifetime ==
    RAdd(RMul(design_values.total_capex, Frac(1232, 1000)), total_opex_over_lifetime)

\* total_cost_over_lifetime / (design_values['flowrate'] * 365 * years_of_operation)
cost_per_cubic_meter ==
    RDiv(total_cost_over_lifetime,
         RMul(RMul(design_values.flowrate, R(365)), R(years_of_operation)))

\* The values behind the "Cost (PHP)" column before conversion, row by row:
\* the CAPEX items, Total CAPEX, the OPEX items, Total Monthly OPEX, then the
\* annual, lifetime and unit costs.
CostRow(i) ==
    IF i <= Len(capex_items) THEN Values(capex_items)[i]
    ELSE IF i = Len(capex_items) + 1 THEN design_values.total_capex
    ELSE IF i <= Len(capex_items) + 1 + Len(opex_items)
         THEN Values(opex_items)[i - Len(capex_items) - 1]
    ELSE CASE i = 15 -> design_values.total_monthly_opex
           [] i = 16 -> annual_opex
           [] i = 17 -> total_opex_over_lifetime
           [] i = 18 -> total_cost_over_lifetime
           [] i = 19 -> cost_per_cubic_meter

\* detailed_cost_data, column by column.
detailed_cost_data ==
    ("Component" :>
        Keys(capex_items) \o <<"Total CAPEX">> \o Keys(opex_items)
            \o <<"Total Monthly OPEX", "Annual OPEX", "Lifetime OPEX (10 years)",
                 "Total Lifetime Cost (10 years)", "Cost Per Cubic Meter">>)
    @@ ("Cost (PHP)" :> [i \in 1..19 |-> RMul(CostRow(i), php_conversion_rate)])
    @@ ("Category" :>
        Repeat("CAPEX", Len(capex_items)) \o <<"CAPEX">>
            \o Repeat("Monthly OPEX", Len(opex_items))
            \o <<"Monthly OPEX", "Annual OPEX", "Lifetime OPEX", "Total Cost",
                 "Unit Cost">>)

\* ------------------------------------------------ the report renderer

\* Tab 1, System Performance, "Ozone Generation" (kWh/day):
\* design_values['ozone_requirement_kg_per_day'] * 3
OzoneGenerationShown == RMul(design_values.ozone_requirement_kg_per_day, R(3))

\* "Pumping" (kWh/day): design_values['flowrate'] * 0.05
PumpingShown == RMul(design_values.flowrate, Frac(5, 100))

\* "Recirculation" (kWh/day): design_values['daily_recirculation_energy']
RecirculationShown == design_values.daily_recirculation_energy

\* total_daily_energy, shown as "Total Daily Energy"
total_daily_energy == RAdd(RAdd(OzoneGenerationShown, PumpingShown), RecirculationShown)

\* "Monthly Energy Cost" (pesos): the two monthly power costs, each times
\* design_values['php_conversion_rate']
MonthlyEnergyCostShown ==
    RAdd(RMul(design_values.monthly_ozone_power_cost, design_values.php_conversion_rate),
         RMul(design_values.monthly_pumping_cost, design_values.php_conversion_rate))

\* Tab 3: required_filter_area = design_values['total_pump_flow_rate'] /
\* filtration_loading_rate, with the tab's own filtration_loading_rate = 10
required_filter_area == RDiv(design_values.total_pump_flow_rate, R(10))

\* "Recommended Filter Units": max(2, int(np.ceil(required_filter_area/5)))
RecommendedFilterUnits == Max(2, Ceil(RDiv(required_filter_area, R(5))))

\* f"{x:.1f}": x rounded to one decimal, ties to even, as the whole number of
\* tenths the string shows ("8.1" is 81).
OneDecimal(x) ==
    LET whole == x[1] \div x[2]
        digit == ((x[1] % x[2]) * 10) \div x[2]
        r == ((x[1] % x[2]) * 10) % x[2]
        f == whole * 10 + digit
    IN  IF 2 * r > x[2] THEN f + 1
        ELSE IF 2 * r < x[2] THEN f
        ELSE IF f % 2 = 0 THEN f ELSE f + 1

\* Tab 7: the share shown under each CAPEX item,
\* f"{cost/design_values['total_capex']*100:.1f}%", in tenths of a percent.
CapexPercentsShown ==
    [i \in 1..Len(capex_items) |->
        OneDecimal(RMul(RDiv(Values(capex_items)[i], design_values.total_capex),
                        R(100)))]

\* The share shown under each OPEX item,
\* f"{cost/design_values['total_monthly_opex']*100:.1f}%", in tenths of a percent.
OpexPercentsShown ==
    [i \in 1..Len(opex_items) |->
        OneDecimal(RMul(RDiv(Values(opex_items)[i], design_values.total_monthly_opex),
                        R(100)))]

\* ============================================================== claims

\* A call has returned and design_values is its result for the current
\* globals and arguments.
Done == pc = "idle"

\* Done, and the call before this one returned too.
DoneTwice == Done /\ prev # NoPrev /\ prev.out # NoResult

\* cod_inlet * 0.4^n
Decayed(ci, n) == RMul(ci, Frac(Pow(2, n), Pow(5, n)))

\* The smallest n >= 0 with cod_inlet * 0.4^n <= cod_target.
NaturalStages(ci, ct) ==
    CHOOSE n \in 0..(MaxIterations + 1) :
        /\ RLe(Decayed(ci, n), ct)
        /\ \A m \in 0..(n - 1) : RGt(Decayed(ci, m), ct)

\* C1: the returned stages_needed is the natural stage count n clamped to
\* [2, 4]: 2 when n < 2, 4 when n > 4, and n itself otherwise.
C1_StageClamp ==
    Done =>
        LET n == NaturalStages(design_values.cod_inlet, design_values.cod_target)
        IN  /\ n < 2 => design_values.stages_needed = 2
            /\ n > 4 => design_values.stages_needed = 4
            /\ (2 <= n /\ n <= 4) => design_values.stages_needed = n

\* A call returned 2 stages for a natural count of 1 (1000 -> 400 <= 900).
C1_Witness ==
    /\ Done
    /\ NaturalStages(design_values.cod_inlet, design_values.cod_target) = 1
    /\ design_values.stages_needed = 2

\* C2: num_reactor_trains is the least whole number k of reactors whose
\* capacity k * reactor_size / 2 covers the hourly flow flowrate / 24, and
\* two calls with the same flowrate and reactor_size return the same train
\* count whatever their cod_inlet and cod_target.
C2_TrainCount ==
    Done =>
        LET hourly == RDiv(design_values.flowrate, R(24))
            capacity == RDiv(design_values.reactor_size, R(2))
            k == design_values.num_reactor_trains
        IN  /\ RLe(hourly, RMul(R(k), capacity))
            /\ RLt(RMul(R(k - 1), capacity), hourly)
            /\ (/\ DoneTwice
                /\ prev.in.flowrate = flowrate
                /\ prev.in.reactor_size = reactor_size)
               => prev.out.num_reactor_trains = k

\* flowrate 48 with 2.0 m3 reactors gave 2 trains, as did the call before it
\* with another COD pair.
C2_Witness ==
    /\ DoneTwice
    /\ flowrate = R(48)
    /\ reactor_size = R(2)
    /\ prev.in.flowrate = flowrate
    /\ prev.in.reactor_size = reactor_size
    /\ prev.in.cod_inlet # cod_inlet
    /\ prev.out.stages_needed # design_values.stages_needed
    /\ design_values.num_reactor_trains = 2

\* C3: the container counts follow the ordered policy (flowrate <= 15: one
\* 20ft; else at most 12 units: one 40ft; else q 40ft plus nothing, one 20ft
\* or one more 40ft as the remainder is 0, at most 6, or more), and
\* container_cost is the counts times the two container costs.
C3_ContainerPolicy ==
    Done =>
        LET units == design_values.total_equipment_units
            q == units \div 12
            r == units % 12
            n20 == design_values.num_20ft_containers
            n40 == design_values.num_40ft_containers
        IN  /\ <<n20, n40>> =
                   IF RLe(design_values.flowrate, R(15)) THEN <<1, 0>>
                   ELSE IF units <= 12 THEN <<0, 1>>
                   ELSE IF r = 0 THEN <<0, q>>
                   ELSE IF r <= 6 THEN <<1, q>>
                   ELSE <<0, q + 1>>
            /\ design_values.container_cost =
                   RAdd(RMul(R(n20), rates.container_20ft_cost),
                        RMul(R(n40), rates.container_40ft_cost))

\* Above 15 m3/day, 18 units (remainder 6) were housed in one 40ft and one
\* 20ft container.
C3_Witness ==
    /\ Done
    /\ RGt(design_values.flowrate, R(15))
    /\ design_values.total_equipment_units = 18
    /\ design_values.num_20ft_containers = 1
    /\ design_values.num_40ft_containers = 1

\* The seven components of the direct costs, summed.
SevenComponents(d) ==
    RAdd(d.aop_reactor_cost,
    RAdd(d.ozone_generator_cost,
    RAdd(d.pump_cost,
    RAdd(d.filter_cost,
    RAdd(d.ph_adjustment_cost,
    RAdd(d.piping_cost, d.container_cost))))))

\* C4: epc_cost is epc_factor times the sum of the seven direct cost
\* components, and total_capex is that sum plus epc_cost.
C4_CapexRollup ==
    Done =>
        /\ design_values.epc_cost = RMul(SevenComponents(design_values), rates.epc_factor)
        /\ design_values.total_capex =
               RAdd(SevenComponents(design_values), design_values.epc_cost)

\* A roll-up over seven different positive components with a 20% EPC factor.
C4_Witness ==
    /\ Done
    /\ rates.epc_factor = Frac(1, 5)
    /\ design_values.container_cost = R(13000)
    /\ design_values.aop_reactor_cost # design_values.pump_cost
    /\ RGt(design_values.total_capex, SevenComponents(design_values))

\* The call before this one had the same inputs except for a flowrate that
\* was not larger.
OnlyFlowrateGrew ==
    /\ DoneTwice
    /\ [prev.in EXCEPT !.flowrate = flowrate] = InputsRec
    /\ RLe(prev.in.flowrate, flowrate)

\* C5 as claimed: of two calls that differ only in flowrate, the one with the
\* larger flowrate has the larger or equal total_capex.
C5_CapexMonotone ==
    OnlyFlowrateGrew => RLe(prev.out.total_capex, design_values.total_capex)

\* C5 amended: the same, when a 20ft container costs no more than a 40ft one.
C5_CapexMonotoneCheaper20ft ==
    (OnlyFlowrateGrew /\ RLe(rates.container_20ft_cost, rates.container_40ft_cost))
        => RLe(prev.out.total_capex, design_values.total_capex)

\* With a 20ft container no dearer than a 40ft one, the flowrate rose across
\* the 15 m3/day container boundary and total_capex rose with it.
C5_Witness ==
    /\ OnlyFlowrateGrew
    /\ RLe(rates.container_20ft_cost, rates.container_40ft_cost)
    /\ RLe(prev.in.flowrate, R(15))
    /\ RGt(flowrate, R(15))
    /\ RLt(prev.out.total_capex, design_values.total_capex)

\* C6: of two calls that differ only in flowrate, the one with the larger
\* flowrate has at least as many reactors and at least as many pumps.
C6_CountsMonotone ==
    OnlyFlowrateGrew =>
        /\ prev.out.total_reactors <= design_values.total_reactors
        /\ prev.out.total_pumps <= design_values.total_pumps

\* The flowrate rose and both counts rose with it.
C6_Witness ==
    /\ OnlyFlowrateGrew
    /\ prev.out.total_reactors < design_values.total_reactors
    /\ prev.out.total_pumps < design_values.total_pumps

\* The keys of the returned dict.
ResultFields ==
    {"flowrate", "cod_inlet", "cod_target", "initial_ph", "reactor_size",
     "cod_load_kg_per_day", "ozone_requirement_kg_per_day",
     "num_parallel_reactors_needed", "stages_needed", "num_reactor_trains",
     "total_reactors", "num_ozone_generators", "ozone_generator_cost",
     "cod_reduction_stages", "pump_flow_rate_per_train", "total_pump_flow_rate",
     "recirculation_flow_rate", "recirculation_pumps_required",
     "total_influent_effluent_pumps", "total_pumps", "aop_reactor_cost",
     "pump_cost", "filter_cost", "filter_units", "ph_adjustment_cost",
     "piping_cost", "epc_cost", "total_capex", "monthly_ozone_power_cost",
     "daily_recirculation_energy", "monthly_pumping_cost",
     "monthly_chemical_cost", "monthly_labor_cost", "monthly_maintenance_cost",
     "total_monthly_opex", "electricity_cost", "chemical_cost_factor",
     "operators_required", "php_conversion_rate", "num_20ft_containers",
     "num_40ft_containers", "container_cost", "total_equipment_units"}

\* The last call returned a dict with every key, both container counts bound
\* to whole numbers.
Complete ==
    /\ pc = "idle"
    /\ DOMAIN design_values = ResultFields
    /\ design_values.num_20ft_containers \in Nat
    /\ design_values.num_40ft_containers \in Nat

\* The running call is out of the staging loop: its condition is false (the
\* statements after the loop run next) or the call is over.
LoopExited == pc # "loop" \/ ~LoopCondition(current_cod, cod_target)

\* A call never ends in an exception, and what it returns is complete.
ReturnsComplete == pc # "raised" /\ (pc = "idle" => Complete)

\* C7: every call on valid inputs leaves the COD staging loop after finitely
\* many iterations, raises nothing, and returns a dict in which every field,
\* both container counts included, is assigned.
C7_Terminates == [](pc = "loop" => <>LoopExited) /\ []ReturnsComplete

\* A call that ran the loop seven times and took the container path that
\* assigns num_20ft_containers alone (14 units, remainder 2) has returned a
\* complete result.
C7_Witness ==
    /\ Complete
    /\ Len(design_values.cod_reduction_stages) = 8
    /\ design_values.total_equipment_units = 14
    /\ design_values.num_20ft_containers = 1
    /\ design_values.num_40ft_containers = 1

\* C8: whenever calculate_design_values runs or has run, the process inputs
\* it reads are in the validated domain: flowrate > 0, cod_inlet > 0,
\* 0 < cod_target < cod_inlet, 1 <= initial_ph <= 14, reactor_size 1.5 or 2.0.
C8_InputsValidated ==
    /\ RGt(flowrate, R(0))
    /\ RGt(cod_inlet, R(0))
    /\ RGt(cod_target, R(0))
    /\ RLt(cod_target, cod_inlet)
    /\ RLe(R(1), initial_ph)
    /\ RLe(initial_ph, R(14))
    /\ reactor_size \in {Frac(3, 2), R(2)}

\* A call was entered with every widget at an end of its range: the largest
\* flowrate, the smallest COD inlet, the largest COD target and pH 14.
C8_Witness ==
    /\ pc = "loop"
    /\ flowrate = R(150)
    /\ cod_inlet = R(10)
    /\ cod_target = R(9)
    /\ initial_ph = R(14)
    /\ reactor_size = R(2)

\* C9: a call with the same globals and arguments as the call before it
\* returns the same dict, field by field.
C9_Deterministic ==
    (DoneTwice /\ prev.in = InputsRec) => prev.out = design_values

\* Two calls in a row on the same inputs, each with a four-entry COD sequence.
C9_Witness ==
    /\ DoneTwice
    /\ prev.in = InputsRec
    /\ Len(design_values.cod_reduction_stages) = 4
    /\ Len(prev.out.cod_reduction_stages) = 4

\* C10: two calls that differ only in php_conversion_rate return dicts that
\* differ only in the php_conversion_rate entry.
C10_UsdOnly ==
    (DoneTwice /\ [prev.in EXCEPT !.php_conversion_rate = php_conversion_rate] = InputsRec)
        => [prev.out EXCEPT !.php_conversion_rate = php_conversion_rate] = design_values

\* Two calls in a row whose conversion rates differ and nothing else.
C10_Witness ==
    /\ DoneTwice
    /\ [prev.in EXCEPT !.php_conversion_rate = php_conversion_rate] = InputsRec
    /\ prev.in.php_conversion_rate # php_conversion_rate
    /\ prev.out.php_conversion_rate # design_values.php_conversion_rate
    /\ prev.out.total_capex = design_values.total_capex

\* C11: total_pumps is 4 pumps for every train plus the 2 recirculation
\* pumps, so two calls with the same train count return the same total_pumps
\* whatever their reactor counts and recirculation flow rates.
C11_PumpCount ==
    Done =>
        /\ design_values.total_influent_effluent_pumps =
               4 * design_values.num_reactor_trains
        /\ design_values.recirculation_pumps_required = 2
        /\ design_values.total_pumps = 4 * design_values.num_reactor_trains + 2
        /\ (DoneTwice /\ prev.out.num_reactor_trains = design_values.num_reactor_trains)
               => prev.out.total_pumps = design_values.total_pumps

\* Three trains gave 14 pumps, as in the call before with another reactor
\* count and another recirculation flow rate.
C11_Witness ==
    /\ DoneTwice
    /\ design_values.num_reactor_trains = 3
    /\ design_values.total_pumps = 14
    /\ prev.out.num_reactor_trains = 3
    /\ prev.out.total_reactors # design_values.total_reactors
    /\ prev.out.recirculation_flow_rate # design_values.recirculation_flow_rate

\* C12: total_reactors is the train count times the clamped stage count and
\* there are two ozone generators per reactor; two calls with the same reactor
\* count return the same generator count whatever their ozone requirement.
C12_ReactorsAndGenerators ==
    Done =>
        /\ design_values.total_reactors =
               design_values.num_reactor_trains * design_values.stages_needed
        /\ design_values.num_ozone_generators = 2 * design_values.total_reactors
        /\ (DoneTwice /\ prev.out.total_reactors = design_values.total_reactors)
               => prev.out.num_ozone_generators = design_values.num_ozone_generators

\* Seven natural stages were clamped to 4 per train; the call before had the
\* same reactor count, hence the same generator count, with another ozone
\* requirement.
C12_Witness ==
    /\ DoneTwice
    /\ NaturalStages(cod_inlet, cod_target) = 7
    /\ design_values.stages_needed = 4
    /\ design_values.total_reactors = 4 * design_values.num_reactor_trains
    /\ design_values.num_reactor_trains > 1
    /\ prev.out.total_reactors = design_values.total_reactors
    /\ prev.out.ozone_requirement_kg_per_day # design_values.ozone_requirement_kg_per_day
    /\ prev.out.num_ozone_generators = design_values.num_ozone_generators

\* C13: total_pump_flow_rate is reactor_size / 0.25 for every train, and
\* filter_units is the least whole number k >= 2 of 5 m2 units that covers
\* the area total_pump_flow_rate / 10; it is never below 2.
C13_Filtration ==
    Done =>
        LET area == RDiv(design_values.total_pump_flow_rate, R(10))
            k == design_values.filter_units
        IN  /\ design_values.total_pump_flow_rate =
                   RMul(RMul(R(4), design_values.reactor_size),
                        R(design_values.num_reactor_trains))
            /\ k >= 2
            /\ RLe(area, R(5 * k))
            /\ k > 2 => RLt(R(5 * (k - 1)), area)

\* An area above 10 m2 took 3 filter units; the call before, with a small
\* area, stayed at the floor of 2.
C13_Witness ==
    /\ DoneTwice
    /\ design_values.filter_units = 3
    /\ RGt(design_values.total_pump_flow_rate, R(100))
    /\ prev.out.filter_units = 2
    /\ RLt(prev.out.total_pump_flow_rate, R(50))

\* The five monthly line items, summed.
FiveItems(d) ==
    RAdd(d.monthly_ozone_power_cost,
    RAdd(d.monthly_pumping_cost,
    RAdd(d.monthly_chemical_cost,
    RAdd(d.monthly_labor_cost, d.monthly_maintenance_cost))))

\* C14: total_monthly_opex is the sum of the five monthly line items, the
\* chemical item is flowrate * 30 * chemicals_base_cost * chemical_cost_factor
\* and the maintenance item is total_capex * maintenance_factor / 12.
C14_OpexRollup ==
    Done =>
        /\ design_values.total_monthly_opex = FiveItems(design_values)
        /\ design_values.monthly_chemical_cost =
               RMul(RMul(RMul(R(30), flowrate), chemical_cost_factor),
                    rates.chemicals_base_cost)
        /\ RMul(R(12), design_values.monthly_maintenance_cost) =
               RMul(rates.maintenance_factor, design_values.total_capex)

\* 48 m3/day at 0.25 USD/m3 and a chemical cost factor of 1.5 cost 540 a
\* month; the five items are positive and pairwise different.
C14_Witness ==
    /\ Done
    /\ flowrate = R(48)
    /\ chemical_cost_factor = Frac(3, 2)
    /\ design_values.monthly_chemical_cost = R(540)
    /\ RGt(design_values.monthly_maintenance_cost, R(0))
    /\ Cardinality({design_values.monthly_ozone_power_cost,
                    design_values.monthly_pumping_cost,
                    design_values.monthly_chemical_cost,
                    design_values.monthly_labor_cost,
                    design_values.monthly_maintenance_cost}) = 5

\* The result field each of the first fifteen export rows stands for.
ExportedField ==
    <<"aop_reactor_cost", "ozone_generator_cost", "pump_cost", "filter_cost",
      "ph_adjustment_cost", "container_cost", "piping_cost", "epc_cost",
      "total_capex", "monthly_ozone_power_cost", "monthly_pumping_cost",
      "monthly_chemical_cost", "monthly_labor_cost", "monthly_maintenance_cost",
      "total_monthly_opex">>

\* The label of each of those rows.
ExportedComponent ==
    <<"AOP Reactors", "Ozone Generators", "Pumping Equipment", "Sand Filtration",
      "pH Adjustment", "Container Housing", "Piping & Instrumentation", "EPC",
      "Total CAPEX", "Ozone Generation Power", "Pumping Power", "Chemicals",
      "Labor", "Maintenance", "Total Monthly OPEX">>

\* C15 as claimed: each of the fifteen cost rows of the export names a field
\* of the engine result and carries a value equal to that field.
C15_ExportEqualsResult ==
    Done =>
        \A i \in 1..15 :
            /\ detailed_cost_data["Component"][i] = ExportedComponent[i]
            /\ ExportedField[i] \in DOMAIN design_values
            /\ detailed_cost_data["Cost (PHP)"][i] = design_values[ExportedField[i]]

\* C15 amended: each of the fifteen cost rows of the export names a field of
\* the engine result and carries that field times php_conversion_rate.
C15_ExportIsResultInPesos ==
    Done =>
        \A i \in 1..15 :
            /\ detailed_cost_data["Component"][i] = ExportedComponent[i]
            /\ ExportedField[i] \in DOMAIN design_values
            /\ detailed_cost_data["Cost (PHP)"][i] =
                   RMul(php_conversion_rate, design_values[ExportedField[i]])

\* An export of a result with different container and piping costs at 58
\* pesos to the dollar: the Total CAPEX row is 58 times total_capex.
C15_Witness ==
    /\ Done
    /\ php_conversion_rate = R(58)
    /\ Len(detailed_cost_data["Component"]) = 19
    /\ design_values.container_cost # design_values.piping_cost
    /\ detailed_cost_data["Cost (PHP)"][9] = RMul(R(58), design_values.total_capex)
    /\ detailed_cost_data["Cost (PHP)"][9] # design_values.total_capex

\* flowrate * (cod_inlet - cod_target) / 1000: the COD mass removed, kg/day.
CodRemovedKgPerDay ==
    RDiv(RMul(flowrate, RAdd(cod_inlet, RMul(R(-1), cod_target))), R(1000))

\* C16 as claimed: monthly_ozone_power_cost is the COD mass removed per day
\* times ozone_power_consumption times 30 times electricity_cost.
C16_OzoneCostFromCodRemoved ==
    Done =>
        design_values.monthly_ozone_power_cost =
            RMul(RMul(RMul(CodRemovedKgPerDay, rates.ozone_power_consumption), R(30)),
                 electricity_cost)

\* C16 amended: monthly_ozone_power_cost is the ozone requirement, a quarter
\* of the COD load flowrate * cod_inlet / 1000, times ozone_power_consumption
\* times 30 times electricity_cost; it does not depend on cod_target.
C16_OzoneCostFromOzoneRequirement ==
    Done =>
        /\ RMul(R(4000), design_values.ozone_requirement_kg_per_day) =
               RMul(flowrate, cod_inlet)
        /\ design_values.monthly_ozone_power_cost =
               RMul(RMul(R(30), electricity_cost),
                    RMul(rates.ozone_power_consumption,
                         design_values.ozone_requirement_kg_per_day))
        /\ (DoneTwice /\ [prev.in EXCEPT !.cod_target = cod_target] = InputsRec)
               => prev.out.monthly_ozone_power_cost =
                      design_values.monthly_ozone_power_cost

\* Two calls that differ in cod_target alone (900 and 4 for an inlet of 1000),
\* with the same positive ozone power cost.
C16_Witness ==
    /\ DoneTwice
    /\ [prev.in EXCEPT !.cod_target = cod_target] = InputsRec
    /\ cod_inlet = R(1000)
    /\ cod_target = R(4)
    /\ prev.in.cod_target = R(900)
    /\ RGt(design_values.monthly_ozone_power_cost, R(0))
    /\ prev.out.monthly_ozone_power_cost = design_values.monthly_ozone_power_cost

\* C17: cod_reduction_stages has n + 1 entries for the natural stage count n,
\* starts with cod_inlet, each later entry is 0.4 times the one before, every
\* entry but the last is above cod_target and the last is not; the clamp of
\* stages_needed does not touch it.
C17_SequenceUnclamped ==
    Done =>
        LET seq == design_values.cod_reduction_stages
            n == NaturalStages(cod_inlet, cod_target)
        IN  /\ Len(seq) = n + 1
            /\ seq[1] = cod_inlet
            /\ \A i \in 2..Len(seq) : RMul(R(5), seq[i]) = RMul(R(2), seq[i - 1])
            /\ \A i \in 1..(Len(seq) - 1) : RGt(seq[i], cod_target)
            /\ RLe(seq[Len(seq)], cod_target)

\* A sequence of 8 entries with stages_needed clamped down to 4, after a call
\* that returned 2 entries with stages_needed clamped up to 2.
C17_Witness ==
    /\ DoneTwice
    /\ Len(design_values.cod_reduction_stages) = 8
    /\ design_values.stages_needed = 4
    /\ Len(prev.out.cod_reduction_stages) = 2
    /\ prev.out.stages_needed = 2

\* C18 as claimed: a call entered with cod_target >= cod_inlet stays in the COD
\* reduction loop and never returns.
C18_NeverReturns == RLe(cod_inlet, cod_target) => pc = "loop"

\* C18 amended: a call entered with cod_target >= cod_inlet finds the loop
\* condition false at once: no iteration runs, nothing is raised, and it
\* returns the one-entry sequence [cod_inlet] with stages_needed clamped to 2.
C18_NoIteration ==
    RLe(cod_inlet, cod_target) =>
        /\ pc # "raised"
        /\ stages_needed = 0
        /\ cod_values = <<cod_inlet>>
        /\ pc = "loop" => ~LoopCondition(current_cod, cod_target)
        /\ pc = "idle" =>
               /\ design_values.cod_reduction_stages = <<cod_inlet>>
               /\ design_values.stages_needed = 2

\* A call with cod_target 2000 above cod_inlet 1000 has returned.
C18_Witness ==
    /\ pc = "idle"
    /\ cod_inlet = R(1000)
    /\ cod_target = R(2000)
    /\ design_values.cod_target = R(2000)
    /\ design_values.stages_needed = 2
    /\ Len(design_values.cod_reduction_stages) = 1

\* C19: monthly_pumping_cost is the daily energy of the base flow and of the
\* recirculation running 24 hours, times 30 times electricity_cost, where
\* recirculation_flow_rate = total_reactors * reactor_size * 5 / 2.
C19_PumpingCost ==
    Done =>
        /\ RMul(R(2), design_values.recirculation_flow_rate) =
               RMul(R(5 * design_values.total_reactors), reactor_size)
        /\ design_values.monthly_pumping_cost =
               RMul(RMul(R(30), electricity_cost),
                    RMul(rates.pump_power_consumption,
                         RAdd(flowrate,
                              RMul(R(24), design_values.recirculation_flow_rate))))

\* Two calls with the same train count and different reactor counts: the
\* recirculation flow rate and the pumping cost rose with the reactor count.
C19_Witness ==
    /\ DoneTwice
    /\ prev.out.num_reactor_trains = design_values.num_reactor_trains
    /\ prev.in.flowrate = flowrate
    /\ prev.in.reactor_size = reactor_size
    /\ prev.out.total_reactors < design_values.total_reactors
    /\ RLt(prev.out.recirculation_flow_rate, design_values.recirculation_flow_rate)
    /\ RLt(prev.out.monthly_pumping_cost, design_values.monthly_pumping_cost)

\* C20: filter_cost is filter_unit_cost times the area total_pump_flow_rate /
\* 10, not times the filter_units count, which enters total_equipment_units =
\* total_reactors + filter_units.
C20_FilterCostByArea ==
    Done =>
        /\ RMul(R(10), design_values.filter_cost) =
               RMul(rates.filter_unit_cost, design_values.total_pump_flow_rate)
        /\ design_values.total_equipment_units =
               design_values.total_reactors + design_values.filter_units

\* An area of 0.8 m2 under the floor of 2 filter units: the cost is 0.8 unit
\* costs, the housing counts 2 units.
C20_Witness ==
    /\ Done
    /\ design_values.total_pump_flow_rate = R(8)
    /\ design_values.filter_units = 2
    /\ design_values.filter_cost = RMul(Frac(4, 5), rates.filter_unit_cost)
    /\ design_values.filter_cost # RMul(R(2), rates.filter_unit_cost)
    /\ design_values.total_equipment_units = design_values.total_reactors + 2

C22_RendererShowsEngineFigures ==
    Done =>
        LET month(e) == RMul(RMul(e, R(30)), electricity_cost)
        IN  /\ month(OzoneGenerationShown) = design_values.monthly_ozone_power_cost
            /\ month(RAdd(PumpingShown, RecirculationShown)) =
                   design_values.monthly_pumping_cost
            /\ RMul(month(total_daily_energy), php_conversion_rate) =
                   MonthlyEnergyCostShown
            /\ RecommendedFilterUnits = design_values.filter_units

\* C23: the containers selected have room for the housed equipment: 6 units
\* for every 20ft and 12 for every 40ft container cover total_equipment_units,
\* also when flowrate <= 15 picks the single 20ft container unseen.
C23_ContainerCapacity ==
    Done =>
        6 * design_values.num_20ft_containers + 12 * design_values.num_40ft_containers
            >= design_values.total_equipment_units

\* At 10 m3/day seven natural stages were clamped to 4: the 4 reactors and 2
\* filter units fill the single 20ft container.
C23_Witness ==
    /\ Done
    /\ RLe(design_values.flowrate, R(15))
    /\ NaturalStages(cod_inlet, cod_target) = 7
    /\ design_values.total_equipment_units = 6
    /\ design_values.num_20ft_containers = 1
    /\ design_values.num_40ft_containers = 0

\* C24: when the natural stage count n is at most 4 the installed stages
\* reach the target, cod_inlet * 0.4^stages_needed <= cod_target; the
\* installed train misses the target only when n > 4 was clamped down to 4.
C24_InstalledStagesReachTarget ==
    Done =>
        LET n == NaturalStages(cod_inlet, cod_target)
            installed == Decayed(cod_inlet, design_values.stages_needed)
        IN  /\ n <= 4 => RLe(installed, cod_target)
            /\ RGt(installed, cod_target) => (n > 4 /\ design_values.stages_needed = 4)

\* Four natural stages were installed and reach the target (1000 -> 25.6 <=
\* 40); the call before, clamped from 7 to 4, missed its target of 4.
C24_Witness ==
    /\ DoneTwice
    /\ NaturalStages(cod_inlet, cod_target) = 4
    /\ design_values.stages_needed = 4
    /\ RLe(Decayed(cod_inlet, 4), cod_target)
    /\ RGt(Decayed(cod_inlet, 3), cod_target)
    /\ prev.out.stages_needed = 4
    /\ RGt(Decayed(prev.in.cod_inlet, 4), prev.in.cod_target)

\* The sum of the rationals f[lo], ..., f[hi].
RECURSIVE RSum(_, _, _)
RSum(f, lo, hi) == IF lo > hi THEN R(0) ELSE RAdd(f[lo], RSum(f, lo + 1, hi))

\* The sum of the whole numbers f[lo], ..., f[hi].
RECURSIVE ISum(_, _, _)
ISum(f, lo, hi) == IF lo > hi THEN 0 ELSE f[lo] + ISum(f, lo + 1, hi)

\* The eight CAPEX items sum to total_capex and the five OPEX items to
\* total_monthly_opex, in the result and in the rows of the export.
ItemsSumToTotals ==
    /\ Len(capex_items) = 8
    /\ Len(opex_items) = 5
    /\ RSum(Values(capex_items), 1, 8) = design_values.total_capex
    /\ RSum(Values(opex_items), 1, 5) = design_values.total_monthly_opex
    /\ detailed_cost_data["Component"][9] = "Total CAPEX"
    /\ detailed_cost_data["Component"][15] = "Total Monthly OPEX"
    /\ RSum(detailed_cost_data["Cost (PHP)"], 1, 8) = detailed_cost_data["Cost (PHP)"][9]
    /\ RSum(detailed_cost_data["Cost (PHP)"], 10, 14) =
           detailed_cost_data["Cost (PHP)"][15]

\* C25 as claimed: the items sum to the totals, the 'Total' rows of the export
\* are the sums of the rows above them, and the percentages displayed sum to
\* 100.0%.
C25_ItemsAndPercentsSum ==
    Done =>
        /\ ItemsSumToTotals
        /\ ISum(CapexPercentsShown, 1, 8) = 1000
        /\ ISum(OpexPercentsShown, 1, 5) = 1000

\* C25 amended: the items sum to the totals, the 'Total' rows of the export
\* are the sums of the rows above them, and the percentages displayed, each
\* rounded to one decimal, sum to 100% to within that rounding: at most 0.4
\* off for the eight CAPEX items and 0.2 for the five OPEX items.
C25_ItemsSumPercentsNearly ==
    Done =>
        /\ ItemsSumToTotals
        /\ Abs(ISum(CapexPercentsShown, 1, 8) - 1000) <= 4
        /\ Abs(ISum(OpexPercentsShown, 1, 5) - 1000) <= 2

\* Every widget at its default: the eight CAPEX shares are shown as 8.1, 16.2,
\* 16.2, 1.6, 2.7, 24.9, 7.3 and 23.1 (100.1%), the five OPEX shares as 5.0,
\* 9.4, 8.8, 53.0 and 23.7 (99.9%), while the items sum to the totals.
C25_Witness ==
    /\ Done
    /\ InputsRec = WidgetDefaults
    /\ ItemsSumToTotals
    /\ CapexPercentsShown = <<81, 162, 162, 16, 27, 249, 73, 231>>
    /\ OpexPercentsShown = <<50, 94, 88, 530, 237>>

====
